---- MODULE Spec2Model ----
(***************************************************************************)
(* Model of the binary and structured codecs of src/src/lib.rs:            *)
(* CompactSize, Txid, OutPoint, Script, TransactionInput and               *)
(* BitcoinTransaction.                                                     *)
(*                                                                         *)
(* Number representation.  TLC's integers are 32-bit, the program's are    *)
(* u8, u16, u32, u64 and usize (taken to be 64 bits wide).  A byte is a    *)
(* number in 0..255; every wider integer is a little-endian sequence of    *)
(* 16-bit limbs: a u16 has 1 limb, a u32 has 2, a u64 or usize has 4.      *)
(* Buffer lengths and cursors, which are bounded by the length of a        *)
(* buffer that exists in memory, are plain naturals.                       *)
(*                                                                         *)
(* A call's outcome is a record [tag, val, used]: tag "Ok" with the value  *)
(* and the bytes consumed, tag "Err" with the BitcoinError, or tag "Panic" *)
(* when the call unwinds instead of returning.                             *)
(***************************************************************************)
EXTENDS Integers, Sequences, FiniteSets

VARIABLES
    pc,               \* position of the client: which call comes next
    x,                \* the in-memory value handed to to_bytes / serialize
    bytes,            \* the byte buffer handed to from_bytes
    ret,              \* the outcome of the last call
    overflow_checks,  \* build profile: TRUE = arithmetic overflow panics
    cursor,           \* BitcoinTransaction::from_bytes: local cursor
    version,          \* BitcoinTransaction::from_bytes: local version
    input_count,      \* BitcoinTransaction::from_bytes: local input_count.value
    inputs,           \* BitcoinTransaction::from_bytes: local inputs
    json              \* the structured (serde_json::Value) representation

vars == <<pc, x, bytes, ret, overflow_checks, cursor, version, input_count,
          inputs, json>>

----------------------------------------------------------------------------
(* Bounds of the model *)

\* longest tail that follows the first byte of a buffer given to
\* CompactSize::from_bytes
MaxRest == 8

\* longest script payload drawn byte by byte
MaxScriptLen == 2

\* most inputs of a transaction
MaxInputs == 2

\* most bytes appended behind an encoded transaction
MaxTrailing == 2

----------------------------------------------------------------------------
(* Outcomes *)

Ok(v, n) == [tag |-> "Ok", val |-> v, used |-> n]

Err(e) == [tag |-> "Err", val |-> e, used |-> 0]

Panic(why) == [tag |-> "Panic", val |-> why, used |-> 0]

None == [tag |-> "None", val |-> "", used |-> 0]

InsufficientBytes == "InsufficientBytes"

InvalidFormat == "InvalidFormat"

----------------------------------------------------------------------------
(* Fixed-width integers as little-endian sequences of 16-bit limbs *)

Limb == 256 * 256

\* n < 2^31 as a 4-limb usize / u64
FromNat(n) == <<n % Limb, n \div Limb, 0, 0>>

\* a u8 widened to u64 (`*uno as u64`)
U8AsU64(b) == <<b, 0, 0, 0>>

\* a u16 / u32 widened to u64 (`as u64`)
AsU64(v) == [k \in 1..4 |-> IF k <= Len(v) THEN v[k] ELSE 0]

\* `as u8`, `as u16`, `as u32`: truncation to the low bits
AsU8(v) == v[1] % 256

AsU16(v) == <<v[1]>>

AsU32(v) == <<v[1], v[2]>>

\* a <= b for two integers of the same width
RECURSIVE LeFrom(_, _, _)
LeFrom(a, b, k) ==
    IF k = 0 THEN TRUE
    ELSE IF a[k] /= b[k] THEN a[k] < b[k]
    ELSE LeFrom(a, b, k - 1)

Le(a, b) == LeFrom(a, b, Len(a))

Lt(a, b) == ~Le(b, a)

\* The 64-bit sum a + b with its carry out of bit 63.
UsizeAdd(a, b) ==
    LET s1 == a[1] + b[1]
        s2 == a[2] + b[2] + (s1 \div Limb)
        s3 == a[3] + b[3] + (s2 \div Limb)
        s4 == a[4] + b[4] + (s3 \div Limb)
    IN  [carry |-> s4 \div Limb,
         sum |-> <<s1 % Limb, s2 % Limb, s3 % Limb, s4 % Limb>>]

\* a usize known to be at most the length of a buffer, as a natural
ToNat(v) == v[1] + Limb * v[2]

\* {integer}::to_le_bytes
to_le_bytes(v) ==
    [k \in 1..(2 * Len(v)) |->
        IF k % 2 = 1 THEN v[(k + 1) \div 2] % 256 ELSE v[k \div 2] \div 256]

\* {integer}::from_le_bytes
from_le_bytes(b) ==
    [k \in 1..(Len(b) \div 2) |-> b[2 * k - 1] + 256 * b[2 * k]]

\* slice.get(..n): the first n bytes, or nothing when there are fewer
GetPrefix(s, n) == IF Len(s) < n THEN <<>> ELSE SubSeq(s, 1, n)

\* &s[from..]
SliceFrom(s, from) == SubSeq(s, from + 1, Len(s))

----------------------------------------------------------------------------
(* CompactSize *)

CompactSize_new(value) == [value |-> value]

\* CompactSize::to_bytes with the first arm written `..=0xfd`
CompactSize_to_bytes_OffByOne(self) ==
    IF Le(self.value, <<253, 0, 0, 0>>)
        THEN <<AsU8(self.value)>>
    ELSE IF Le(self.value, <<65535, 0, 0, 0>>)
        THEN <<253>> \o to_le_bytes(AsU16(self.value))
    ELSE IF Le(self.value, <<65535, 65535, 0, 0>>)
        THEN <<254>> \o to_le_bytes(AsU32(self.value))
    ELSE <<255>> \o to_le_bytes(self.value)

\* {integer}::to_be_bytes
to_be_bytes(v) ==
    [k \in 1..(2 * Len(v)) |-> to_le_bytes(v)[2 * Len(v) + 1 - k]]

\* CompactSize::to_bytes with to_be_bytes for to_le_bytes
CompactSize_to_bytes_BigEndian(self) ==
    IF Le(self.value, <<252, 0, 0, 0>>)
        THEN <<AsU8(self.value)>>
    ELSE IF Le(self.value, <<65535, 0, 0, 0>>)
        THEN <<253>> \o to_be_bytes(AsU16(self.value))
    ELSE IF Le(self.value, <<65535, 65535, 0, 0>>)
        THEN <<254>> \o to_be_bytes(AsU32(self.value))
    ELSE <<255>> \o to_be_bytes(self.value)

CompactSize_to_bytes(self) ==
    IF Le(self.value, <<252, 0, 0, 0>>)                      \* ..=0xfc
        THEN <<AsU8(self.value)>>
    ELSE IF Le(self.value, <<65535, 0, 0, 0>>)               \* 0xfd..=0xffff
        THEN <<253>> \o to_le_bytes(AsU16(self.value))
    ELSE IF Le(self.value, <<65535, 65535, 0, 0>>)           \* ..=0xffffffff
        THEN <<254>> \o to_le_bytes(AsU32(self.value))
    ELSE <<255>> \o to_le_bytes(self.value)

\* CompactSize::from_bytes that refuses a prefix wider than its value needs
CompactSize_from_bytes_Strict(b) ==
    IF b = <<>> THEN Err(InsufficientBytes)
    ELSE IF b[1] <= 252 THEN Ok(CompactSize_new(U8AsU64(b[1])), 1)
    ELSE LET rest == SliceFrom(b, 1)
             n == CASE b[1] = 253 -> 2 [] b[1] = 254 -> 4 [] OTHER -> 8
             slice == GetPrefix(rest, n)
             value == AsU64(from_le_bytes(slice))
         IN  IF Len(rest) < n THEN Err(InsufficientBytes)
             ELSE IF Len(CompactSize_to_bytes(CompactSize_new(value))) /= 1 + n
                 THEN Err(InvalidFormat)
             ELSE Ok(CompactSize_new(value), 1 + n)

CompactSize_from_bytes(b) ==
    IF b = <<>> THEN Err(InsufficientBytes)
    ELSE IF b[1] <= 252 THEN Ok(CompactSize_new(U8AsU64(b[1])), 1)
    ELSE LET rest == SliceFrom(b, 1)
             n == CASE b[1] = 253 -> 2 [] b[1] = 254 -> 4 [] OTHER -> 8
             slice == GetPrefix(rest, n)
         IN  IF Len(rest) < n THEN Err(InsufficientBytes)
             ELSE Ok(CompactSize_new(AsU64(from_le_bytes(slice))), 1 + n)

----------------------------------------------------------------------------
(* OutPoint *)

OutPoint_new(txid, vout) == [txid |-> txid, vout |-> vout]

OutPoint_to_bytes(self) == self.txid \o to_le_bytes(self.vout)

OutPoint_from_bytes(b) ==
    IF Len(b) < 36 THEN Err(InsufficientBytes)
    ELSE Ok(OutPoint_new(SubSeq(b, 1, 32), from_le_bytes(SubSeq(b, 33, 36))),
            36)

----------------------------------------------------------------------------
(* Script *)

Script_new(b) == [bytes |-> b]

\* Script::to_bytes with the length written as one byte (`len as u8`)
Script_to_bytes_ByteLen(self) == <<Len(self.bytes) % 256>> \o self.bytes

Script_to_bytes(self) ==
    CompactSize_to_bytes(CompactSize_new(FromNat(Len(self.bytes))))
        \o self.bytes

\* `len_bytes + len_script` on usize: with overflow checks the sum panics
\* when it does not fit, without them it wraps.
Script_from_bytes(b) ==
    LET r == CompactSize_from_bytes(b)
        len_bytes == r.used
        len_script == r.val.value
        add == UsizeAdd(FromNat(len_bytes), len_script)
        total_needed == add.sum
    IN  IF r.tag /= "Ok" THEN r
        ELSE IF add.carry = 1 /\ overflow_checks
            THEN Panic("attempt to add with overflow")
        ELSE IF Lt(FromNat(Len(b)), total_needed)
            THEN Err(InsufficientBytes)
        ELSE IF Lt(total_needed, FromNat(len_bytes))
            THEN Panic("slice index starts after its end")
        ELSE Ok(Script_new(SubSeq(b, len_bytes + 1, ToNat(total_needed))),
                ToNat(total_needed))

----------------------------------------------------------------------------
(* TransactionInput *)

TransactionInput_new(previous_output, script_sig, sequence) ==
    [previous_output |-> previous_output, script_sig |-> script_sig,
     sequence |-> sequence]

TransactionInput_to_bytes(self) ==
    OutPoint_to_bytes(self.previous_output)
        \o Script_to_bytes(self.script_sig)
        \o to_le_bytes(self.sequence)

\* TransactionInput::from_bytes without the check in front of the sequence
\* number: indexing past the end of the buffer panics
TransactionInput_from_bytes_Unguarded(b) ==
    LET o == OutPoint_from_bytes(SliceFrom(b, 0))
        cursor1 == o.used
        s == Script_from_bytes(SliceFrom(b, cursor1))
        cursor2 == cursor1 + s.used
    IN  IF o.tag /= "Ok" THEN o
        ELSE IF s.tag /= "Ok" THEN s
        ELSE IF Len(b) < cursor2 + 4 THEN Panic("index out of bounds")
        ELSE Ok(TransactionInput_new(
                    o.val, s.val,
                    from_le_bytes(SubSeq(b, cursor2 + 1, cursor2 + 4))),
                cursor2 + 4)

TransactionInput_from_bytes(b) ==
    LET o == OutPoint_from_bytes(SliceFrom(b, 0))
        cursor1 == o.used
        s == Script_from_bytes(SliceFrom(b, cursor1))
        cursor2 == cursor1 + s.used
    IN  IF o.tag /= "Ok" THEN o
        ELSE IF s.tag /= "Ok" THEN s
        ELSE IF Len(b) < cursor2 + 4 THEN Err(InsufficientBytes)
        ELSE Ok(TransactionInput_new(
                    o.val, s.val,
                    from_le_bytes(SubSeq(b, cursor2 + 1, cursor2 + 4))),
                cursor2 + 4)

----------------------------------------------------------------------------
(* BitcoinTransaction *)

BitcoinTransaction_new(ver, ins, lock_time) ==
    [version |-> ver, inputs |-> ins, lock_time |-> lock_time]

RECURSIVE ConcatInputs(_)
ConcatInputs(ins) ==
    IF ins = <<>> THEN <<>>
    ELSE TransactionInput_to_bytes(Head(ins)) \o ConcatInputs(Tail(ins))

BitcoinTransaction_to_bytes(self) ==
    to_le_bytes(self.version)
        \o CompactSize_to_bytes(CompactSize_new(FromNat(Len(self.inputs))))
        \o ConcatInputs(self.inputs)
        \o to_le_bytes(self.lock_time)

(* BitcoinTransaction::from_bytes, one step per statement group.  A frame  *)
(* st holds the call's position and locals: [pc, cursor, version,          *)
(* input_count, inputs, ret].                                              *)

TxEntry ==
    [pc |-> "tx_version", cursor |-> 0, version |-> <<0, 0>>,
     input_count |-> <<0, 0, 0, 0>>, inputs |-> <<>>, ret |-> None]

TxReturn(st, r) == [st EXCEPT !.pc = "tx_done", !.ret = r]

\* `if bytes.len() < 4 {..}; version = ..; cursor += 4`
TxReadVersion(b, st) ==
    IF Len(b) < 4 THEN TxReturn(st, Err(InsufficientBytes))
    ELSE [st EXCEPT !.pc = "tx_count",
                    !.version = from_le_bytes(SubSeq(b, 1, 4)),
                    !.cursor = st.cursor + 4]

\* Vec::with_capacity(n) for 64-byte elements panics ("capacity overflow")
\* when n * 64 exceeds isize::MAX, that is when n >= 2^57.
CapacityOverflow(n) == n[4] >= 512

\* `CompactSize::from_bytes(&bytes[cursor..])?; cursor += count_len;
\*  inputs = Vec::with_capacity(input_count.value as usize)`
TxReadCount(b, st) ==
    LET r == CompactSize_from_bytes(SliceFrom(b, st.cursor))
    IN  IF r.tag /= "Ok" THEN TxReturn(st, r)
        ELSE IF CapacityOverflow(r.val.value)
            THEN TxReturn([st EXCEPT !.cursor = st.cursor + r.used,
                                     !.input_count = r.val.value],
                          Panic("capacity overflow"))
        ELSE [st EXCEPT !.pc = "tx_inputs",
                        !.cursor = st.cursor + r.used,
                        !.input_count = r.val.value,
                        !.inputs = <<>>]

\* one turn of `for _ in 0..input_count.value {..}`, or leaving the loop
TxReadInput(b, st) ==
    LET r == TransactionInput_from_bytes(SliceFrom(b, st.cursor))
    IN  IF ~Lt(FromNat(Len(st.inputs)), st.input_count)
            THEN [st EXCEPT !.pc = "tx_lock_time"]
        ELSE IF r.tag /= "Ok" THEN TxReturn(st, r)
        ELSE [st EXCEPT !.inputs = Append(st.inputs, r.val),
                        !.cursor = st.cursor + r.used]

\* the last step without `cursor += 4`
TxReadLockTime_NoAdvance(b, st) ==
    IF Len(b) < st.cursor + 4 THEN TxReturn(st, Err(InsufficientBytes))
    ELSE LET lock_time ==
                 from_le_bytes(SubSeq(b, st.cursor + 1, st.cursor + 4))
         IN  TxReturn(st, Ok(BitcoinTransaction_new(st.version, st.inputs,
                                                    lock_time), st.cursor))

\* `if bytes.len() < cursor + 4 {..}; lock_time = ..; cursor += 4; Ok(..)`
TxReadLockTime(b, st) ==
    IF Len(b) < st.cursor + 4 THEN TxReturn(st, Err(InsufficientBytes))
    ELSE LET lock_time ==
                 from_le_bytes(SubSeq(b, st.cursor + 1, st.cursor + 4))
             end == st.cursor + 4
         IN  TxReturn([st EXCEPT !.cursor = end],
                      Ok(BitcoinTransaction_new(st.version, st.inputs,
                                                lock_time), end))

TxStep(b, st) ==
    CASE st.pc = "tx_version" -> TxReadVersion(b, st)
      [] st.pc = "tx_count" -> TxReadCount(b, st)
      [] st.pc = "tx_inputs" -> TxReadInput(b, st)
      [] st.pc = "tx_lock_time" -> TxReadLockTime(b, st)

RECURSIVE TxRun(_, _)
TxRun(b, st) == IF st.pc = "tx_done" THEN st ELSE TxRun(b, TxStep(b, st))

\* the call as a whole
BitcoinTransaction_from_bytes(b) == TxRun(b, TxEntry).ret

----------------------------------------------------------------------------
(* The structured representation: serde_json::Value trees.  A number is a  *)
(* u64, a string is a sequence of one-character strings.                   *)

Number(v) == [t |-> "Number", v |-> v]

String(chars) == [t |-> "String", v |-> chars]

Array(items) == [t |-> "Array", v |-> items]

Object(fields) == [t |-> "Object", v |-> fields]

LowerHex ==
    <<"0", "1", "2", "3", "4", "5", "6", "7", "8", "9", "a", "b", "c", "d",
      "e", "f">>

UpperHex ==
    <<"0", "1", "2", "3", "4", "5", "6", "7", "8", "9", "A", "B", "C", "D",
      "E", "F">>

\* hex::encode
hex_encode(b) ==
    [k \in 1..(2 * Len(b)) |->
        IF k % 2 = 1 THEN LowerHex[(b[(k + 1) \div 2] \div 16) + 1]
        ELSE LowerHex[(b[k \div 2] % 16) + 1]]

IsHexChar(c) == \E d \in 1..16 : LowerHex[d] = c \/ UpperHex[d] = c

HexVal(c) == (CHOOSE d \in 1..16 : LowerHex[d] = c \/ UpperHex[d] = c) - 1

\* hex::decode
hex_decode(chars) ==
    IF Len(chars) % 2 = 1 THEN Err("OddLength")
    ELSE IF \E k \in 1..Len(chars) : ~IsHexChar(chars[k])
        THEN Err("InvalidHexCharacter")
    ELSE Ok([k \in 1..(Len(chars) \div 2) |->
                16 * HexVal(chars[2 * k - 1]) + HexVal(chars[2 * k])], 0)

\* the 32 bytes in reverse order (`bytes.reverse()`)
Reversed(b) == [k \in 1..Len(b) |-> b[Len(b) + 1 - k]]

\* Serialize for Txid with the reversal the source has commented out
Txid_serialize_Reversed(self) == String(hex_encode(Reversed(self)))

\* impl Serialize for Txid
Txid_serialize(self) == String(hex_encode(self))

\* Deserialize for Txid that reverses the decoded bytes
Txid_deserialize_Reversed(d) ==
    LET decoded == hex_decode(d.v)
    IN  IF d.t /= "String" THEN Err("invalid type")
        ELSE IF decoded.tag /= "Ok" THEN Err("Invalid hex string")
        ELSE IF Len(decoded.val) /= 32
            THEN Err("Txid must be exactly 32 bytes")
        ELSE Ok(Reversed(decoded.val), 0)

\* impl Deserialize for Txid
Txid_deserialize(d) ==
    LET decoded == hex_decode(d.v)
    IN  IF d.t /= "String" THEN Err("invalid type")
        ELSE IF decoded.tag /= "Ok" THEN Err("Invalid hex string")
        ELSE IF Len(decoded.val) /= 32
            THEN Err("Txid must be exactly 32 bytes")
        ELSE Ok(decoded.val, 0)

\* u32 and u8 fields: serialize_u32 / serialize_u8, and their visitors
U32_serialize(v) == Number(AsU64(v))

U32_deserialize(d) ==
    IF d.t /= "Number" THEN Err("invalid type")
    ELSE IF d.v[3] /= 0 \/ d.v[4] /= 0 THEN Err("invalid value")
    ELSE Ok(AsU32(d.v), 0)

U8_serialize(b) == Number(U8AsU64(b))

U8_deserialize(d) ==
    IF d.t /= "Number" THEN Err("invalid type")
    ELSE IF Lt(<<255, 0, 0, 0>>, d.v) THEN Err("invalid value")
    ELSE Ok(AsU8(d.v), 0)

HasFields(d, names) == d.t = "Object" /\ DOMAIN d.v = names

\* #[derive(Serialize, Deserialize)] struct OutPoint
OutPoint_serialize(self) ==
    Object([txid |-> Txid_serialize(self.txid),
            vout |-> U32_serialize(self.vout)])

OutPoint_deserialize(d) ==
    LET txid == Txid_deserialize(d.v.txid)
        vout == U32_deserialize(d.v.vout)
    IN  IF ~HasFields(d, {"txid", "vout"}) THEN Err("invalid type")
        ELSE IF txid.tag /= "Ok" THEN txid
        ELSE IF vout.tag /= "Ok" THEN vout
        ELSE Ok([txid |-> txid.val, vout |-> vout.val], 0)

\* #[derive(Serialize, Deserialize)] struct Script
Script_serialize(self) ==
    Object([bytes |-> Array([k \in 1..Len(self.bytes) |->
                                U8_serialize(self.bytes[k])])])

Script_deserialize(d) ==
    LET items == d.v.bytes.v
        each == [k \in 1..Len(items) |-> U8_deserialize(items[k])]
    IN  IF ~HasFields(d, {"bytes"}) THEN Err("invalid type")
        ELSE IF d.v.bytes.t /= "Array" THEN Err("invalid type")
        ELSE IF \E k \in 1..Len(items) : each[k].tag /= "Ok"
            THEN each[CHOOSE k \in 1..Len(items) :
                        /\ each[k].tag /= "Ok"
                        /\ \A j \in 1..(k - 1) : each[j].tag = "Ok"]
        ELSE Ok([bytes |-> [k \in 1..Len(items) |-> each[k].val]], 0)

\* #[derive(Serialize, Deserialize)] struct TransactionInput
TransactionInput_serialize(self) ==
    Object([previous_output |-> OutPoint_serialize(self.previous_output),
            script_sig |-> Script_serialize(self.script_sig),
            sequence |-> U32_serialize(self.sequence)])

TransactionInput_deserialize(d) ==
    LET o == OutPoint_deserialize(d.v.previous_output)
        s == Script_deserialize(d.v.script_sig)
        q == U32_deserialize(d.v.sequence)
    IN  IF ~HasFields(d, {"previous_output", "script_sig", "sequence"})
            THEN Err("invalid type")
        ELSE IF o.tag /= "Ok" THEN o
        ELSE IF s.tag /= "Ok" THEN s
        ELSE IF q.tag /= "Ok" THEN q
        ELSE Ok([previous_output |-> o.val, script_sig |-> s.val,
                 sequence |-> q.val], 0)

\* #[derive(Serialize, Deserialize)] struct BitcoinTransaction
BitcoinTransaction_serialize(self) ==
    Object([version |-> U32_serialize(self.version),
            inputs |-> Array([k \in 1..Len(self.inputs) |->
                                TransactionInput_serialize(self.inputs[k])]),
            lock_time |-> U32_serialize(self.lock_time)])

BitcoinTransaction_deserialize(d) ==
    LET v == U32_deserialize(d.v.version)
        items == d.v.inputs.v
        each == [k \in 1..Len(items) |-> TransactionInput_deserialize(items[k])]
        l == U32_deserialize(d.v.lock_time)
    IN  IF ~HasFields(d, {"version", "inputs", "lock_time"})
            THEN Err("invalid type")
        ELSE IF v.tag /= "Ok" THEN v
        ELSE IF d.v.inputs.t /= "Array" THEN Err("invalid type")
        ELSE IF \E k \in 1..Len(items) : each[k].tag /= "Ok"
            THEN each[CHOOSE k \in 1..Len(items) :
                        /\ each[k].tag /= "Ok"
                        /\ \A j \in 1..(k - 1) : each[j].tag = "Ok"]
        ELSE IF l.tag /= "Ok" THEN l
        ELSE Ok([version |-> v.val,
                 inputs |-> [k \in 1..Len(items) |-> each[k].val],
                 lock_time |-> l.val], 0)

----------------------------------------------------------------------------
(* Inputs of the model *)

\* u64 values around every class boundary of the encoding
U64Samples ==
    {<<a, b, c, d>> : a \in {0, 1, 252, 253, 255, 256, 65535},
                      b \in {0, 1, 65535}, c \in {0, 1, 65535},
                      d \in {0, 1, 65535}}

RECURSIVE SeqsUpTo(_, _)
SeqsUpTo(S, n) ==
    IF n = 0 THEN {<<>>}
    ELSE LET shorter == SeqsUpTo(S, n - 1)
         IN  shorter \cup {Append(s, e) : s \in {t \in shorter : Len(t) = n - 1},
                                         e \in S}

\* buffers for CompactSize::from_bytes: empty, or a first byte of every
\* class followed by up to MaxRest bytes
VarIntBuffers ==
    {<<>>} \cup {<<f>> \o r : f \in {0, 5, 252, 253, 254, 255},
                             r \in SeqsUpTo({0, 5, 255}, MaxRest)}

\* a 32-byte array, zero but for its first, 16th and last byte
TxidOf(first, mid, last) ==
    [k \in 1..32 |-> CASE k = 1 -> first [] k = 16 -> mid [] k = 32 -> last
                       [] OTHER -> 0]

\* a payload long enough for a 3-byte length prefix
LongPayload == [k \in 1..253 |-> k % 256]

ScriptSamples ==
    {Script_new(b) : b \in SeqsUpTo({1, 255}, MaxScriptLen) \cup {LongPayload}}

\* (txid, vout, sequence); 61185 = 0xef01 and 43981 = 0xabcd
FieldSamples ==
    {<<TxidOf(0, 0, 1), <<0, 0>>, <<65535, 65535>>>>,
     <<TxidOf(171, 7, 205), <<61185, 43981>>, <<2, 0>>>>}

OutPointSamples == {OutPoint_new(f[1], f[2]) : f \in FieldSamples}

InputSamples ==
    {TransactionInput_new(OutPoint_new(f[1], f[2]), s, f[3]) :
        f \in FieldSamples, s \in ScriptSamples}

\* the inputs transactions are built from: an empty script, a script that
\* starts with a prefix byte, a script with a 3-byte length prefix
TxInputSamples ==
    {TransactionInput_new(OutPoint_new(TxidOf(0, 0, 1), <<0, 0>>),
                          Script_new(<<>>), <<65535, 65535>>),
     TransactionInput_new(OutPoint_new(TxidOf(171, 7, 205), <<3, 0>>),
                          Script_new(<<253, 2>>), <<61185, 43981>>),
     TransactionInput_new(OutPoint_new(TxidOf(0, 0, 204), <<61185, 43981>>),
                          Script_new(LongPayload), <<0, 0>>)}

\* Txid values with every combination of first, middle and last byte
TxidSamples ==
    {TxidOf(a, b, c) : a \in {0, 1, 171, 255}, b \in {0, 7},
                        c \in {0, 1, 205, 255}}

\* texts for Txid's Deserialize that no Txid was serialized to
TxidTexts ==
    {hex_encode(TxidOf(171, 7, 205)) \o t : t \in {<<"0">>, <<"0", "0">>}}
        \cup {SubSeq(hex_encode(TxidOf(171, 7, 205)), 1, n) : n \in {0, 62, 63}}
        \cup {[hex_encode(TxidOf(171, 7, 205)) EXCEPT ![k] = c] :
                  k \in {1, 2, 64}, c \in {"A", "F", "g", "x"}}

\* (version, lock_time)
HeaderSamples == {<<<<2, 0>>, <<1000, 0>>>>, <<<<65535, 65535>>, <<0, 1>>>>}

TxSamples ==
    {BitcoinTransaction_new(h[1], ins, h[2]) :
        h \in HeaderSamples, ins \in SeqsUpTo(TxInputSamples, MaxInputs)}

\* declared lengths and counts: small ones, and ones near 2^57 and 2^64
DeclaredSamples ==
    {FromNat(n) : n \in 0..(MaxInputs + 1)}
        \cup {<<253, 0, 0, 0>>, <<0, 0, 1, 0>>, <<65535, 65535, 65535, 511>>,
              <<0, 0, 0, 512>>, <<65526, 65535, 65535, 65535>>,
              <<65527, 65535, 65535, 65535>>, <<65535, 65535, 65535, 65535>>}

\* a CompactSize prefix for v: the canonical one, or the 9-byte form
Prefixes(v) ==
    {CompactSize_to_bytes(CompactSize_new(v)), <<255>> \o to_le_bytes(v)}

----------------------------------------------------------------------------
(* The client of the codec *)

Init ==
    /\ pc = "idle"
    /\ x = None
    /\ bytes = <<>>
    /\ ret = None
    /\ overflow_checks \in BOOLEAN
    /\ cursor = 0
    /\ version = <<0, 0>>
    /\ input_count = <<0, 0, 0, 0>>
    /\ inputs = <<>>
    /\ json = None

TxLocals == <<cursor, version, input_count, inputs>>

\* CompactSize::new(v)
NewCompactSize ==
    /\ pc = "idle"
    /\ \E v \in U64Samples : x' = CompactSize_new(v)
    /\ pc' = "compact_size"
    /\ UNCHANGED <<bytes, ret, overflow_checks, TxLocals, json>>

\* x.to_bytes() for a CompactSize
EncodeCompactSize ==
    /\ pc = "compact_size"
    /\ bytes' = CompactSize_to_bytes(x)
    /\ pc' = "compact_size_bytes"
    /\ UNCHANGED <<x, ret, overflow_checks, TxLocals, json>>

\* a buffer that does not come from to_bytes reaches the decoder
ReceiveVarInt ==
    /\ pc = "idle"
    /\ \E b \in VarIntBuffers : bytes' = b
    /\ pc' = "compact_size_bytes"
    /\ UNCHANGED <<x, ret, overflow_checks, TxLocals, json>>

\* CompactSize::from_bytes(&bytes)
DecodeCompactSize ==
    /\ pc = "compact_size_bytes"
    /\ ret' = CompactSize_from_bytes(bytes)
    /\ pc' = "compact_size_done"
    /\ UNCHANGED <<x, bytes, overflow_checks, TxLocals, json>>

NextCompactSize ==
    \/ NewCompactSize
    \/ EncodeCompactSize
    \/ ReceiveVarInt
    \/ DecodeCompactSize

SpecCompactSize == Init /\ [][NextCompactSize]_vars

----------------------------------------------------------------------------
(* The binary codecs of OutPoint, Script, TransactionInput and             *)
(* BitcoinTransaction                                                      *)

Construct(value, at) ==
    /\ pc = "idle"
    /\ x' = value
    /\ pc' = at
    /\ UNCHANGED <<bytes, ret, overflow_checks, TxLocals, json>>

Encode(at, encoded, to) ==
    /\ pc = at
    /\ bytes' = encoded
    /\ pc' = to
    /\ UNCHANGED <<x, ret, overflow_checks, TxLocals, json>>

Decode(at, outcome, to) ==
    /\ pc = at
    /\ ret' = outcome
    /\ pc' = to
    /\ UNCHANGED <<x, bytes, overflow_checks, TxLocals, json>>

NewOutPoint == \E o \in OutPointSamples : Construct(o, "outpoint")

EncodeOutPoint == Encode("outpoint", OutPoint_to_bytes(x), "outpoint_bytes")

DecodeOutPoint ==
    Decode("outpoint_bytes", OutPoint_from_bytes(bytes), "outpoint_done")

NewScript == \E s \in ScriptSamples : Construct(s, "script")

EncodeScript == Encode("script", Script_to_bytes(x), "script_bytes")

\* a buffer built by a peer: any declared length in front of any payload
ForgeScript ==
    /\ pc = "idle"
    /\ \E d \in DeclaredSamples, payload \in SeqsUpTo({1, 255}, MaxScriptLen) :
          \E prefix \in Prefixes(d) : bytes' = prefix \o payload
    /\ pc' = "script_bytes"
    /\ UNCHANGED <<x, ret, overflow_checks, TxLocals, json>>

DecodeScript == Decode("script_bytes", Script_from_bytes(bytes), "script_done")

NewInput == \E i \in InputSamples : Construct(i, "input")

EncodeInput == Encode("input", TransactionInput_to_bytes(x), "input_bytes")

DecodeInput ==
    Decode("input_bytes", TransactionInput_from_bytes(bytes), "input_done")

NewTransaction == \E tx \in TxSamples : Construct(tx, "tx")

EncodeTransaction == Encode("tx", BitcoinTransaction_to_bytes(x), "tx_wire")

\* the buffer arrives cut short
Truncate ==
    /\ pc = "tx_wire"
    /\ \E k \in 0..(Len(bytes) - 1) : bytes' = SubSeq(bytes, 1, k)
    /\ pc' = "tx_received"
    /\ UNCHANGED <<x, ret, overflow_checks, TxLocals, json>>

\* the buffer arrives with more bytes behind the transaction
Extend ==
    /\ pc = "tx_wire"
    /\ \E t \in SeqsUpTo({0, 255}, MaxTrailing) \ {<<>>} : bytes' = bytes \o t
    /\ pc' = "tx_received"
    /\ UNCHANGED <<x, ret, overflow_checks, TxLocals, json>>

\* the wire form of tx with its count field replaced by `prefix`
WithCount(tx, prefix) ==
    to_le_bytes(tx.version) \o prefix \o ConcatInputs(tx.inputs)
        \o to_le_bytes(tx.lock_time)

\* the buffer arrives with another input count than it has inputs
ForgeCount ==
    /\ pc = "tx_wire"
    /\ \E d \in DeclaredSamples :
          \E prefix \in Prefixes(d) : bytes' = WithCount(x, prefix)
    /\ pc' = "tx_received"
    /\ UNCHANGED <<x, ret, overflow_checks, TxLocals, json>>

\* the frame of the running BitcoinTransaction::from_bytes call
Frame ==
    [pc |-> pc, cursor |-> cursor, version |-> version,
     input_count |-> input_count, inputs |-> inputs, ret |-> ret]

SetFrame(st) ==
    /\ pc' = st.pc
    /\ cursor' = st.cursor
    /\ version' = st.version
    /\ input_count' = st.input_count
    /\ inputs' = st.inputs
    /\ ret' = st.ret
    /\ UNCHANGED <<x, bytes, overflow_checks, json>>

\* BitcoinTransaction::from_bytes(&bytes) is entered
CallTransactionFromBytes ==
    /\ pc \in {"tx_wire", "tx_received"}
    /\ SetFrame(TxEntry)

TxVersion == pc = "tx_version" /\ SetFrame(TxReadVersion(bytes, Frame))

TxCount == pc = "tx_count" /\ SetFrame(TxReadCount(bytes, Frame))

TxInput == pc = "tx_inputs" /\ SetFrame(TxReadInput(bytes, Frame))

TxLockTime == pc = "tx_lock_time" /\ SetFrame(TxReadLockTime(bytes, Frame))

Next ==
    \/ NewOutPoint
    \/ EncodeOutPoint
    \/ DecodeOutPoint
    \/ NewScript
    \/ EncodeScript
    \/ ForgeScript
    \/ DecodeScript
    \/ NewInput
    \/ EncodeInput
    \/ DecodeInput
    \/ NewTransaction
    \/ EncodeTransaction
    \/ Truncate
    \/ Extend
    \/ ForgeCount
    \/ CallTransactionFromBytes
    \/ TxVersion
    \/ TxCount
    \/ TxInput
    \/ TxLockTime

Spec == Init /\ [][Next]_vars

----------------------------------------------------------------------------
(* The structured codecs *)

NewTxid == \E t \in TxidSamples : Construct(t, "txid")

Serialize(at, tree, to) ==
    /\ pc = at
    /\ json' = tree
    /\ pc' = to
    /\ UNCHANGED <<x, bytes, ret, overflow_checks, TxLocals>>

SerializeTxid == Serialize("txid", Txid_serialize(x), "txid_json")

\* a text that does not come from serialize reaches the deserializer
ReceiveTxidText ==
    /\ pc = "idle"
    /\ \E t \in TxidTexts : json' = String(t)
    /\ pc' = "txid_text"
    /\ UNCHANGED <<x, bytes, ret, overflow_checks, TxLocals>>

DeserializeTxid ==
    /\ pc \in {"txid_json", "txid_text"}
    /\ ret' = Txid_deserialize(json)
    /\ pc' = "txid_done"
    /\ UNCHANGED <<x, bytes, overflow_checks, TxLocals, json>>

SerializeTransaction ==
    Serialize("tx", BitcoinTransaction_serialize(x), "tx_json")

DeserializeTransaction ==
    Decode("tx_json", BitcoinTransaction_deserialize(json), "tx_json_done")

NextJson ==
    \/ NewTxid
    \/ SerializeTxid
    \/ ReceiveTxidText
    \/ DeserializeTxid
    \/ NewTransaction
    \/ SerializeTransaction
    \/ DeserializeTransaction

SpecJson == Init /\ [][NextJson]_vars

----------------------------------------------------------------------------
(* Properties *)

IsStrictPrefix(p, s) == Len(p) < Len(s) /\ p = SubSeq(s, 1, Len(p))

\* byte k (from 0, least significant first) of the number v
ByteAt(v, k) == (v[(k \div 2) + 1] \div (IF k % 2 = 0 THEN 1 ELSE 256)) % 256

\* the width of a CompactSize field from its first byte
FieldLen(first) ==
    CASE first = 253 -> 3 [] first = 254 -> 5 [] first = 255 -> 9 [] OTHER -> 1

\* C1: for every OutPoint, Script, TransactionInput and BitcoinTransaction
\* x, from_bytes(to_bytes(x)) returns Ok((x, length of to_bytes(x))), the
\* inputs in the same order and number.
C1_BinaryRoundTrip ==
    /\ (pc = "outpoint_done" /\ bytes = OutPoint_to_bytes(x))
          => ret = Ok(x, Len(bytes))
    /\ (pc = "script_done" /\ x /= None /\ bytes = Script_to_bytes(x))
          => ret = Ok(x, Len(bytes))
    /\ (pc = "input_done" /\ bytes = TransactionInput_to_bytes(x))
          => ret = Ok(x, Len(bytes))
    /\ (pc = "tx_done" /\ bytes = BitcoinTransaction_to_bytes(x))
          => ret = Ok(x, Len(bytes))

\* a transaction of two different inputs, one with a 3-byte length prefix,
\* has come back from its own encoding
C1_Witness ==
    /\ pc = "tx_done"
    /\ bytes = BitcoinTransaction_to_bytes(x)
    /\ Len(x.inputs) = 2
    /\ x.inputs[1] /= x.inputs[2]
    /\ Len(x.inputs[2].script_sig.bytes) = 253
    /\ ret.tag = "Ok"

\* C2: for every u64 v, CompactSize::from_bytes(CompactSize::new(v)
\* .to_bytes()) returns Ok((v, length of the encoding)).
C2_CompactSizeRoundTrip ==
    (pc = "compact_size_done" /\ x /= None) => ret = Ok(x, Len(bytes))

\* u64::MAX has been encoded and decoded
C2_Witness ==
    /\ pc = "compact_size_done"
    /\ x = CompactSize_new(<<65535, 65535, 65535, 65535>>)
    /\ ret.tag = "Ok"
    /\ ret.used = 9

\* the encoding the format prescribes for v
CanonicalEncoding(v) ==
    LET n == IF v[4] = 0 /\ v[3] = 0 /\ v[2] = 0 /\ v[1] <= 252 THEN 0
             ELSE IF v[4] = 0 /\ v[3] = 0 /\ v[2] = 0 THEN 2
             ELSE IF v[4] = 0 /\ v[3] = 0 THEN 4
             ELSE 8
        first == CASE n = 0 -> v[1] [] n = 2 -> 253 [] n = 4 -> 254
                   [] OTHER -> 255
    IN  [k \in 1..(1 + n) |-> IF k = 1 THEN first ELSE ByteAt(v, k - 2)]

\* C3: CompactSize::to_bytes produces the smallest encoding: one byte up
\* to 252, 0xfd and 2 little-endian bytes up to 65535, 0xfe and 4 up to
\* 4294967295, 0xff and 8 above.
C3_CanonicalEncoding ==
    (pc = "compact_size_bytes" /\ x /= None)
        => bytes = CanonicalEncoding(x.value)

\* 4294967296 has been encoded to ff 00 00 00 00 01 00 00 00
C3_Witness ==
    /\ pc = "compact_size_bytes"
    /\ x = CompactSize_new(<<0, 0, 1, 0>>)
    /\ bytes = <<255, 0, 0, 0, 0, 1, 0, 0, 0>>

\* C4: Script::from_bytes returns Err(InsufficientBytes) whenever the
\* length prefix declares more payload bytes than remain behind it, up to
\* a declared length of u64::MAX, and never panics.
C4_DeclaredBeyondBuffer ==
    pc = "script_done" =>
        LET r == CompactSize_from_bytes(bytes)
        IN  (r.tag = "Ok" /\ Lt(FromNat(Len(bytes) - r.used), r.val.value))
                => ret = Err(InsufficientBytes)

\* how many inputs decode one after the other from the start of b
RECURSIVE CompleteInputs(_)
CompleteInputs(b) ==
    LET r == TransactionInput_from_bytes(b)
    IN  IF r.tag = "Ok" THEN 1 + CompleteInputs(SliceFrom(b, r.used)) ELSE 0

\* the buffer declares more inputs than it holds complete ones
DeclaresMissingInputs ==
    LET r == CompactSize_from_bytes(SliceFrom(bytes, 4))
    IN  /\ Len(bytes) >= 4
        /\ r.tag = "Ok"
        /\ Lt(FromNat(CompleteInputs(SliceFrom(bytes, 4 + r.used))),
              r.val.value)

\* C5: BitcoinTransaction::from_bytes returns Err(InsufficientBytes)
\* whenever the declared input count, up to u64::MAX, exceeds the complete
\* inputs present, and never panics.
C5_CountBeyondInputs ==
    (pc = "tx_done" /\ DeclaresMissingInputs) => ret = Err(InsufficientBytes)

\* C6: CompactSize::from_bytes fails with InsufficientBytes exactly on an
\* empty buffer and on a 0xfd/0xfe/0xff prefix followed by fewer than 2/4/8
\* bytes; otherwise it returns the first byte, or the little-endian value
\* of the 2/4/8 bytes behind the prefix, and 1, 3, 5 or 9 bytes consumed,
\* non-canonical encodings included.
C6_DecodeAnyBuffer ==
    pc = "compact_size_done" =>
        IF bytes = <<>> \/ Len(bytes) < FieldLen(bytes[1])
            THEN ret = Err(InsufficientBytes)
        ELSE LET n == FieldLen(bytes[1])
                 value == IF n = 1 THEN <<bytes[1], 0, 0, 0>>
                          ELSE [k \in 1..4 |->
                                   IF 2 * k < n
                                       THEN bytes[2 * k] + 256 * bytes[2 * k + 1]
                                   ELSE 0]
             IN  ret = Ok(CompactSize_new(value), n)

\* fd 05 00 has been decoded to (5, 3)
C6_Witness ==
    /\ pc = "compact_size_done"
    /\ bytes = <<253, 5, 0>>
    /\ ret = Ok(CompactSize_new(<<5, 0, 0, 0>>), 3)

\* characters 2k+1 and 2k+2 of text are the lowercase hex digits of byte b
PairEncodes(text, k, b) ==
    \E hi \in 1..16, lo \in 1..16 :
        /\ text[2 * k + 1] = LowerHex[hi]
        /\ text[2 * k + 2] = LowerHex[lo]
        /\ 16 * (hi - 1) + (lo - 1) = b

\* C7 as claimed: the text form of a Txid is the lowercase hex of its 32
\* bytes in reversed order, the k-th pair encoding byte 31 - k.
C7_ReversedHex ==
    pc = "txid_json" =>
        /\ json.t = "String"
        /\ Len(json.v) = 64
        /\ \A k \in 0..31 : PairEncodes(json.v, k, x[32 - k])

\* C7 as amended: the text form of a Txid is the lowercase hex of its 32
\* bytes in stored order, the k-th pair encoding byte k.
C7_StoredOrderHex ==
    pc = "txid_json" =>
        /\ json.t = "String"
        /\ Len(json.v) = 64
        /\ \A k \in 0..31 : PairEncodes(json.v, k, x[k + 1])

\* a Txid that starts with 0xab and ends with 0xcd has been serialized
C7_Witness ==
    /\ pc = "txid_json"
    /\ x = TxidOf(171, 7, 205)
    /\ SubSeq(json.v, 1, 2) = <<"a", "b">>
    /\ SubSeq(json.v, 63, 64) = <<"c", "d">>

\* C8: a BitcoinTransaction serialized to the structured representation
\* and deserialized from it comes back equal, every Txid in its stored
\* byte order.
C8_StructuredRoundTrip == pc = "tx_json_done" => ret = Ok(x, 0)

\* a transaction with two inputs, the first with a Txid that is not its
\* own reverse, has come back from the structured form
C8_Witness ==
    /\ pc = "tx_json_done"
    /\ Len(x.inputs) = 2
    /\ x.inputs[1].previous_output.txid = TxidOf(171, 7, 205)
    /\ ret.tag = "Ok"

\* the bytes the inputs ins take in b from offset at: each 36, its length
\* prefix, its payload and 4
RECURSIVE InputsSpan(_, _, _)
InputsSpan(b, at, ins) ==
    IF ins = <<>> THEN 0
    ELSE LET one == 36 + FieldLen(b[at + 37])
                       + Len(Head(ins).script_sig.bytes) + 4
         IN  one + InputsSpan(b, at + one, Tail(ins))

C9_AtReturn ==
    (pc = "tx_done" /\ ret.tag = "Ok") =>
        LET n == ret.used
            c == FieldLen(bytes[5])
        IN  /\ n = 4 + c + InputsSpan(bytes, 4 + c, ret.val.inputs) + 4
            /\ n <= Len(bytes)
            /\ cursor = n
            /\ BitcoinTransaction_from_bytes(SubSeq(bytes, 1, n)) = ret

\* C9: when BitcoinTransaction::from_bytes returns Ok((tx, n)), n is 4 +
\* the count field + the bytes of every input + 4, n is at most the buffer
\* length, the bytes behind n are ignored, and the cursor never moves back.
C9_Consumed == []C9_AtReturn /\ [][cursor' >= cursor]_vars

\* a transaction with an input has been decoded from a buffer with bytes
\* left behind it
C9_Witness ==
    /\ pc = "tx_done"
    /\ ret.tag = "Ok"
    /\ Len(ret.val.inputs) >= 1
    /\ ret.used < Len(bytes)

\* C10: BitcoinTransaction::from_bytes returns Err(InsufficientBytes) on
\* every strict prefix of a transaction's encoding.
C10_TruncationDetected ==
    (pc = "tx_done" /\ IsStrictPrefix(bytes, BitcoinTransaction_to_bytes(x)))
        => ret = Err(InsufficientBytes)

\* an encoding cut inside the script payload of its second input has been
\* refused
C10_Witness ==
    /\ pc = "tx_done"
    /\ IsStrictPrefix(bytes, BitcoinTransaction_to_bytes(x))
    /\ Len(x.inputs) = 2
    /\ Len(x.inputs[2].script_sig.bytes) = 253
    /\ Len(bytes) = Len(BitcoinTransaction_to_bytes(x)) - 100
    /\ ret = Err(InsufficientBytes)

====
